---------------------------- MODULE Spec2Model ----------------------------
(***************************************************************************)
(* A model of the SPI loopback test driver (linux/drivers/spi/spi-test.c,  *)
(* the richer variant kept as src/unnamed/part_000).                       *)
(*                                                                         *)
(* Pointers are natural numbers.  The address space is scaled: a 32-bit    *)
(* word has WORD_BITS bits, RX_START = BIT(30) and TX_START = BIT(31)      *)
(* keep their places (a quarter and a half of the 32-bit space) and        *)
(* PAGE_SIZE is a few bytes.  Pointer and size_t arithmetic wraps at the   *)
(* width of the build (ptr_wide: a 64-bit build, whose word is twice as    *)
(* wide).  Bytes (u8) keep their 8 bits.                                   *)
(***************************************************************************)
EXTENDS Integers, Sequences, FiniteSets, TLC

VARIABLES
    big_endian,     \* build: __BIG_ENDIAN is defined
    ptr_wide,       \* build: pointers and size_t are 64 bit
    devm_tx,        \* build: spi_test_probe as in the second copy of
                    \* src/spi-test.c, which takes tx from devm_kzalloc
    simulate_only,  \* module parameter
    dump_messages,  \* module parameter
    loopback,       \* module parameter
    dma_alignment,  \* spi->master->dma_alignment
    spi_tests,      \* the catalog, without its terminating empty entry
    pc,             \* where spi_test_probe is
    rx,             \* spi_test_probe: rx scratch buffer (NULL: none)
    tx,             \* spi_test_probe: tx scratch buffer (NULL: none)
    freed,          \* the pointers released (kfree, devres), in order
    test_i,         \* spi_test_probe: index of the catalog case, from 1
    idx_len,        \* spi_test_run: idx_len
    len,            \* spi_test_run: len
    tx_align,       \* spi_test_run: tx_align
    rx_align,       \* spi_test_run: rx_align
    ret,            \* spi_test_probe: ret
    mem,            \* the bytes of the two scratch buffers, by address
    trace,          \* history: one record per call of spi_test_run_iter
    max_idx,        \* history: largest index of iterate_len[] read so far
    last,           \* history: the latest call of spi_test_run_iter in full
    wire,           \* what the bus returns on the receive line
    stack,          \* what the stack holds where spi_test_run_iter keeps
                    \* tx_count and rx_count
    call,           \* the arguments of a function exercised on its own
    result          \* its result ("none" before the call)

vars == <<big_endian, ptr_wide, devm_tx, simulate_only, dump_messages, loopback,
          dma_alignment, spi_tests, pc, rx, tx, freed, test_i, idx_len, len,
          tx_align, rx_align, ret, mem, trace, max_idx, last, wire, stack,
          call, result>>

---------------------------------------------------------------------------
(* Program constants *)

SPI_TEST_MAX_TRANSFERS == 4
SPI_TEST_MAX_ITERATE == 12
\* PAGE_SIZE comes from the architecture; scaled, and at least sizeof(int)
\* so that TX(PAGE_SIZE - 4) of the catalog exists
PAGE_SIZE == 4
SPI_TEST_MAX_SIZE == 32 * PAGE_SIZE
\* the mutant: no page of slack behind the largest transfer
MaxSizeNoSlack == SPI_TEST_MAX_SIZE
\* we allocate one page more, to allow for offsets
SPI_TEST_MAX_SIZE_PLUS == SPI_TEST_MAX_SIZE + PAGE_SIZE

\* width of a 32-bit word, scaled
WORD_BITS == 11
WORD32 == 2 ^ WORD_BITS
WORD64 == 2 ^ (2 * WORD_BITS)
\* the modulus of pointer and size_t arithmetic in this build
PtrMod == IF ptr_wide THEN WORD64 ELSE WORD32

NULL == 0
RX_START == 2 ^ (WORD_BITS - 2)
TX_START == 2 ^ (WORD_BITS - 1)
\* pointer + integer, as void * arithmetic does it: the kernel is built
\* with -fno-strict-overflow, so a sum past the end of the address space
\* wraps
PtrAdd(p, n) == (p + n) % PtrMod
RX(off) == PtrAdd(RX_START, off)
TX(off) == PtrAdd(TX_START, off)

EINVAL == 22
EIO == 5
E2BIG == 7
EFAULT == 14
ENOMEM == 12

FILL_MEMSET_8 == 0
FILL_MEMSET_16 == 1
FILL_MEMSET_24 == 2
FILL_MEMSET_32 == 3
FILL_COUNT_8 == 4
FILL_COUNT_16 == 5
FILL_COUNT_24 == 6
FILL_COUNT_32 == 7
FILL_TRANSFER_BYTE_8 == 8
FILL_TRANSFER_BYTE_16 == 9
FILL_TRANSFER_BYTE_24 == 10
FILL_TRANSFER_BYTE_32 == 11
FILL_TRANSFER_NUM == 16

\* u8
BYTE == 256
U8(v) == v % BYTE

\* where kzalloc places the two buffers: kernel addresses, above both
\* placeholder ranges, the tx buffer right behind the rx buffer
RxBuffer == 3 * 2 ^ (WORD_BITS - 2)
TxBuffer == RxBuffer + SPI_TEST_MAX_SIZE_PLUS
MemAddrs == (RxBuffer .. RxBuffer + SPI_TEST_MAX_SIZE_PLUS - 1) \cup
            (TxBuffer .. TxBuffer + SPI_TEST_MAX_SIZE_PLUS - 1)
\* kzalloc: zeroed memory.  The memory is kept as the bytes stored so
\* far, by address; every other byte of the two buffers is still 0
ZeroMem == [a \in {} |-> 0]

---------------------------------------------------------------------------
(* spi_test_translate *)

\* the result and the new value of *ptr
spi_test_translate(ptr, length, txb, rxb) ==
    IF ptr = NULL THEN [ret |-> 0, ptr |-> ptr]
    ELSE IF ptr >= RX(0)
            /\ PtrAdd(ptr, length) <= RX(SPI_TEST_MAX_SIZE_PLUS)
         THEN [ret |-> 0, ptr |-> PtrAdd(rxb, ptr - RX(0))]
    ELSE IF ptr >= TX(0)
            /\ PtrAdd(ptr, length) <= TX(SPI_TEST_MAX_SIZE_PLUS)
         THEN [ret |-> 0, ptr |-> PtrAdd(txb, ptr - TX(0))]
    ELSE [ret |-> -EINVAL, ptr |-> ptr]

---------------------------------------------------------------------------
(* struct spi_transfer and struct spi_test *)

\* a transfer: len, tx_buf, rx_buf
Xfer(l, t, r) == [len |-> l, tx_buf |-> t, rx_buf |-> r]
NoXfer == Xfer(0, NULL, NULL)
\* .transfers = { ... }: the entries given, the rest of the array zero
Xfers(s) == [i \in 1 .. SPI_TEST_MAX_TRANSFERS |->
                IF i <= Len(s) THEN s[i] ELSE NoXfer]
\* .iterate_len = { ... }: the entries given, the rest of the array zero
IterLen(s) == [i \in 1 .. SPI_TEST_MAX_ITERATE |->
                IF i <= Len(s) THEN s[i] ELSE 0]
\* test->test: no custom test code (NULL), or test code that returns r
NoTest == [custom |-> FALSE, ret |-> 0]
Custom(r) == [custom |-> TRUE, ret |-> r]
\* the result of the executed path, if it ran
NotRun == [ran |-> FALSE, ret |-> 0]
Raw(r) == [ran |-> TRUE, ret |-> r]

---------------------------------------------------------------------------
(* spi_test_fill_tx *)

\* value >> n
Shr(value, n) == value \div (2 ^ n)

\* the macro takes its index argument and never uses it: the slice is
\* chosen by count
GET_VALUE_BYTE(value, index, bytes, count) ==
    IF big_endian
    THEN Shr(value, 8 * (bytes - 1 - (count % bytes)))
    ELSE Shr(value, 8 * (count % bytes))

FillOptions == {FILL_MEMSET_8, FILL_MEMSET_16, FILL_MEMSET_24,
                FILL_MEMSET_32, FILL_COUNT_8, FILL_COUNT_16, FILL_COUNT_24,
                FILL_COUNT_32, FILL_TRANSFER_BYTE_8, FILL_TRANSFER_BYTE_16,
                FILL_TRANSFER_BYTE_24, FILL_TRANSFER_BYTE_32,
                FILL_TRANSFER_NUM}

\* the switch: the byte stored at index j of transfer i, count bytes in
FillByte(test, i, j, count) ==
    LET opt == test.fill_option IN
    U8(CASE opt = FILL_MEMSET_8 -> test.fill
         [] opt = FILL_MEMSET_16 -> GET_VALUE_BYTE(test.fill, count, 2, count)
         [] opt = FILL_MEMSET_24 -> GET_VALUE_BYTE(test.fill, count, 3, count)
         [] opt = FILL_MEMSET_32 -> GET_VALUE_BYTE(test.fill, count, 4, count)
         [] opt = FILL_COUNT_8 -> count
         [] opt = FILL_COUNT_16 -> GET_VALUE_BYTE(count, count, 2, count)
         [] opt = FILL_COUNT_24 -> GET_VALUE_BYTE(count, count, 3, count)
         [] opt = FILL_COUNT_32 -> GET_VALUE_BYTE(count, count, 4, count)
         [] opt = FILL_TRANSFER_BYTE_8 -> j
         [] opt = FILL_TRANSFER_BYTE_16 -> GET_VALUE_BYTE(j, j, 2, count)
         [] opt = FILL_TRANSFER_BYTE_24 -> GET_VALUE_BYTE(j, j, 3, count)
         [] opt = FILL_TRANSFER_BYTE_32 -> GET_VALUE_BYTE(j, j, 4, count)
         [] opt = FILL_TRANSFER_NUM -> i)

\* the mutant: the counter restarts with every transfer
CountAfterReset(count, length) == 0

\* count after the inner loop over a transfer of this length: the loop
\* header steps j, tx_buf and count together
CountAfter(count, length) == count + length

\* the state of the fill pass: its result, the memory, the bytes stored in
\* order (address and value), count, and whether a store left the buffers
FillState(r, m, w, c, o) ==
    [ret |-> r, mem |-> m, written |-> w, count |-> c, oob |-> o]

\* the inner loop over transfer i (tx_buf not NULL): byte j goes to
\* tx_buf + j with count = c + j; an unsupported fill_option returns
\* -EINVAL at the first byte
FillOne(test, i, s) ==
    LET x == test.transfers[i + 1]
        at(j) == PtrAdd(x.tx_buf, j)
        val(j) == FillByte(test, i, j, s.count + j)
        js == 0 .. x.len - 1
    IN  IF js = {} THEN s
        ELSE IF test.fill_option \notin FillOptions
        THEN FillState(-EINVAL, s.mem, s.written, s.count, s.oob)
        ELSE FillState(
                0,
                [a \in DOMAIN s.mem \cup ({at(j) : j \in js} \cap MemAddrs) |->
                    IF (a - x.tx_buf) % PtrMod < x.len
                    THEN val((a - x.tx_buf) % PtrMod)
                    ELSE s.mem[a]],
                s.written \o [k \in 1 .. x.len |->
                                <<at(k - 1), val(k - 1)>>],
                CountAfter(s.count, x.len),
                s.oob \/ \E j \in js : at(j) \notin MemAddrs)

\* the outer loop from transfer i on
RECURSIVE FillFrom(_, _, _)
FillFrom(test, i, s) ==
    IF i >= test.transfer_count \/ s.ret # 0 THEN s
    ELSE IF test.transfers[i + 1].tx_buf = NULL
         THEN FillFrom(test, i + 1, s)
         ELSE FillFrom(test, i + 1, FillOne(test, i, s))

spi_test_fill_tx(test, m) ==
    FillFrom(test, 0, FillState(0, m, <<>>, 0, FALSE))

---------------------------------------------------------------------------
(* spi_test_check_loopback_result *)

\* ((u8 *)buf)[i]
MemRead(m, buf, i) ==
    IF PtrAdd(buf, i) \in DOMAIN m THEN m[PtrAdd(buf, i)] ELSE 0

\* a verdict: the result and, at mismatch_error, the transfer (from 1),
\* the byte index and the two bytes reported
Verdict(r, n, i, t, b) == [ret |-> r, xfer |-> n, i |-> i, txb |-> t, rxb |-> b]
LoopbackOk == Verdict(0, 0, 0, 0, 0)

\* the indices 1 <= i < len at which transfer x fails its comparison:
\* against tx_buf[i], or, without tx_buf, against rx_buf[0]
Mismatches(m, x) ==
    {i \in 1 .. x.len - 1 :
        MemRead(m, x.rx_buf, i) #
            (IF x.tx_buf # NULL THEN MemRead(m, x.tx_buf, i)
                                ELSE MemRead(m, x.rx_buf, 0))}

\* the mutant: a pure-receive transfer may hold any byte, repeated
CheckOneAnyIdle(m, x, n) ==
    LET bad == Mismatches(m, x)
        first == CHOOSE i \in bad : \A k \in bad : i <= k
    IN  IF bad = {} THEN LoopbackOk
        ELSE Verdict(-EINVAL, n, first,
                     MemRead(m, IF x.tx_buf # NULL THEN x.tx_buf
                                ELSE x.rx_buf,
                             IF x.tx_buf # NULL THEN first ELSE 0),
                     MemRead(m, x.rx_buf, first))

\* the mutant: the comparison starts at byte 0
CheckOneFromZero(m, x, n) ==
    LET bad == {i \in 0 .. x.len - 1 :
                   MemRead(m, x.rx_buf, i) #
                       (IF x.tx_buf # NULL THEN MemRead(m, x.tx_buf, i)
                                           ELSE MemRead(m, x.rx_buf, 0))}
        first == CHOOSE i \in bad : \A k \in bad : i <= k
    IN  IF bad = {} THEN LoopbackOk
        ELSE Verdict(-EINVAL, n, first, 0, MemRead(m, x.rx_buf, first))

\* the loop body for transfer x, the n-th of the message, with rx_buf
CheckOne(m, x, n) ==
    LET bad == Mismatches(m, x)
        first == CHOOSE i \in bad : \A k \in bad : i <= k
        rx0 == MemRead(m, x.rx_buf, 0)
    IN  IF x.tx_buf # NULL
        THEN IF bad = {} THEN LoopbackOk
             ELSE Verdict(-EINVAL, n, first, MemRead(m, x.tx_buf, first),
                          MemRead(m, x.rx_buf, first))
        ELSE IF ~(rx0 = 0 \/ rx0 = 255)
             THEN Verdict(-EINVAL, n, 0, rx0, rx0)
             ELSE IF bad = {} THEN LoopbackOk
                  ELSE Verdict(-EINVAL, n, first, rx0,
                               MemRead(m, x.rx_buf, first))

\* list_for_each_entry over the transfers of the message, from the n-th
RECURSIVE CheckFrom(_, _, _)
CheckFrom(m, msg, n) ==
    IF n > Len(msg) THEN LoopbackOk
    ELSE IF msg[n].rx_buf = NULL THEN CheckFrom(m, msg, n + 1)
    ELSE LET v == CheckOne(m, msg[n], n)
         IN  IF v.ret # 0 THEN v ELSE CheckFrom(m, msg, n + 1)

spi_test_check_loopback_result(m, msg) == CheckFrom(m, msg, 1)

---------------------------------------------------------------------------
(* spi_sync: the transport, outside the repository.  One outcome of a      *)
(* call is its status, the bytes it failed to account for in              *)
(* actual_length, and what it stored in the receive buffers.               *)

SyncOutcome(st, lost, pat) == [status |-> st, lost |-> lost, rxpat |-> pat]

\* the byte the transport stores at index i of transfer x
RxByte(m, x, i, pat) ==
    LET echo == IF x.tx_buf # NULL THEN MemRead(m, x.tx_buf, i) ELSE 0
    IN  CASE pat = "echo" -> echo
          [] pat = "echo_but_first" -> IF i = 0 THEN 255 ELSE echo
          [] pat = "echo_but_last" ->
                IF i = x.len - 1 THEN U8(echo + 1) ELSE echo
          [] pat = "high" -> 255
          [] pat = "high_but_last" -> IF i = x.len - 1 THEN 0 ELSE 255
          [] pat = "five" -> 5

RxPatterns == {"echo", "echo_but_first", "echo_but_last", "high",
               "high_but_last", "five"}

\* the transfers of the message that receive into address a
RxAt(msg, a) ==
    {n \in 1 .. Len(msg) :
        msg[n].rx_buf # NULL /\ (a - msg[n].rx_buf) % PtrMod < msg[n].len}

\* the addresses the message receives into
RxAddrs(msg) ==
    UNION {IF msg[n].rx_buf = NULL THEN {}
           ELSE {PtrAdd(msg[n].rx_buf, i) : i \in 0 .. msg[n].len - 1}
                    \cap MemAddrs : n \in 1 .. Len(msg)}

\* the memory after the transport has run the message (where receive
\* buffers overlap, the last transfer's byte stays)
SyncMem(m, msg, pat) ==
    [a \in DOMAIN m \cup RxAddrs(msg) |->
        LET ns == RxAt(msg, a)
            n == CHOOSE k \in ns : \A l \in ns : l <= k
        IN  IF ns = {} THEN m[a]
            ELSE RxByte(m, msg[n], (a - msg[n].rx_buf) % PtrMod, pat)]

RECURSIVE SumLen(_, _)
SumLen(msg, n) == IF n > Len(msg) THEN 0 ELSE msg[n].len + SumLen(msg, n + 1)
\* msg->frame_length as the spi core sets it: the sum of the lengths
FrameLength(msg) == SumLen(msg, 1)

---------------------------------------------------------------------------
(* spi_test_execute_msg *)

\* exit: the dump, when requested or on error
Dump(r) ==
    IF dump_messages # 0 \/ r # 0
    THEN IF dump_messages = 2 \/ r # 0 THEN <<"dump_data">> ELSE <<"dump">>
    ELSE <<>>

Executed(r, m, ev) == [ret |-> r, mem |-> m, ev |-> ev \o Dump(r)]

\* the mutant: the loopback check runs before the length check
ExecuteLoopbackFirst(msg, m, o) ==
    IF simulate_only # 0 THEN Executed(0, m, <<>>)
    ELSE IF o.status # 0 THEN Executed(o.status, m, <<"spi_sync">>)
    ELSE LET m2 == SyncMem(m, msg, o.rxpat)
             v == spi_test_check_loopback_result(m2, msg)
         IN  IF loopback # 0 /\ v.ret # 0
             THEN Executed(v.ret, m2, <<"spi_sync", "loopback">>)
             ELSE IF o.lost # 0 /\ o.lost <= FrameLength(msg)
             THEN Executed(-EIO, m2, <<"spi_sync", "length_check">>)
             ELSE Executed(0, m2, <<"spi_sync", "length_check">>)

\* the result, the memory afterwards and what has been done, in order
spi_test_execute_msg(msg, m, o) ==
    IF simulate_only # 0 THEN Executed(0, m, <<>>)
    ELSE IF o.status # 0 THEN Executed(o.status, m, <<"spi_sync">>)
    ELSE LET m2 == SyncMem(m, msg, o.rxpat)
             frame_length == FrameLength(msg)
             actual_length == IF o.lost <= frame_length
                              THEN frame_length - o.lost ELSE frame_length
         IN  IF frame_length # actual_length
             THEN Executed(-EIO, m2, <<"spi_sync", "length_check">>)
             ELSE IF loopback # 0
             THEN Executed(spi_test_check_loopback_result(m2, msg).ret, m2,
                           <<"spi_sync", "length_check", "loopback">>)
             ELSE Executed(0, m2, <<"spi_sync", "length_check">>)

---------------------------------------------------------------------------
(* _spi_test_run *)

\* the state of the loop that adds the transfers: the result, the
\* transfers (patched in place) and what has been done
Built(r, xs, ev) == [ret |-> r, transfers |-> xs, ev |-> ev]

RECURSIVE TranslateFrom(_, _, _, _, _)
TranslateFrom(n, i, b, txb, rxb) ==
    IF i >= n THEN b
    ELSE LET x == b.transfers[i + 1]
             t == spi_test_translate(x.tx_buf, x.len, txb, rxb)
             r == spi_test_translate(x.rx_buf, x.len, txb, rxb)
         IN  IF t.ret # 0
             THEN Built(t.ret, b.transfers, b.ev \o <<"translate">>)
             ELSE IF r.ret # 0
             THEN Built(r.ret,
                        [b.transfers EXCEPT ![i + 1].tx_buf = t.ptr],
                        b.ev \o <<"translate", "translate">>)
             ELSE TranslateFrom(n, i + 1,
                    Built(0,
                          [b.transfers EXCEPT ![i + 1].tx_buf = t.ptr,
                                              ![i + 1].rx_buf = r.ptr],
                          b.ev \o <<"translate", "translate">>),
                    txb, rxb)

\* the mutant: every mismatch is reported as -EFAULT
HandleResultFlat(r, expected) == IF r = expected THEN 0 ELSE -EFAULT

\* handle result: what _spi_test_run returns for the result r of the
\* executed path
HandleResult(r, expected) ==
    IF r = expected THEN 0
    ELSE IF r # 0 THEN r
    ELSE -EFAULT

\* what a call has done: its result, the memory, the steps in order, the
\* result of the executed path (if it ran) and the message
Ran(r, m, ev, raw, msg) ==
    [ret |-> r, mem |-> m, ev |-> ev, raw |-> raw, msg |-> msg]

spi_test_run_(test, txb, rxb, m, o) ==
    LET b == TranslateFrom(test.transfer_count, 0,
                           Built(0, test.transfers, <<>>), txb, rxb)
        msg == [n \in 1 .. test.transfer_count |-> b.transfers[n]]
        f == spi_test_fill_tx([test EXCEPT !.transfers = b.transfers], m)
        e == IF test.test.custom
             THEN [ret |-> test.test.ret, mem |-> f.mem, ev |-> <<"custom">>]
             ELSE spi_test_execute_msg(msg, f.mem, o)
    IN  IF b.ret # 0 THEN Ran(b.ret, m, b.ev, NotRun, <<>>)
        ELSE IF f.ret # 0
        THEN Ran(f.ret, f.mem, b.ev \o <<"fill">>, NotRun, msg)
        ELSE Ran(HandleResult(e.ret, test.expected_return), e.mem,
                 b.ev \o <<"fill">> \o e.ev, Raw(e.ret), msg)

---------------------------------------------------------------------------
(* spi_test_run_iter *)

\* struct spi_test
Test(d, il, ta, ra, t, e, tc, xs, f, fo) ==
    [description |-> d, iterate_len |-> IterLen(il), iterate_tx_align |-> ta,
     iterate_rx_align |-> ra, test |-> t, expected_return |-> e,
     transfer_count |-> tc, transfers |-> Xfers(xs), fill |-> f,
     fill_option |-> fo]

\* the number of leading transfers with a length, SPI_TEST_MAX_TRANSFERS at
\* most
RECURSIVE LeadingLen(_, _)
LeadingLen(xs, i) ==
    IF i < SPI_TEST_MAX_TRANSFERS /\ xs[i + 1].len # 0
    THEN 1 + LeadingLen(xs, i + 1) ELSE 0

\* set up test->transfers to the correct count
SetCount(test) ==
    IF test.transfer_count = 0
    THEN [test EXCEPT !.transfer_count = LeadingLen(test.transfers, 0)]
    ELSE test

\* tx_count and rx_count are never initialised: they start from whatever
\* the stack holds (g) and count up from there
TxCount(test, g) ==
    g.tx + Cardinality({i \in 1 .. test.transfer_count :
                            test.transfers[i].tx_buf # NULL})
RxCount(test, g) ==
    g.rx + Cardinality({i \in 1 .. test.transfer_count :
                            test.transfers[i].rx_buf # NULL})

\* warn and exit early
SkipIter(test, tx_off, rx_off, g) ==
    \/ tx_off # 0 /\ TxCount(test, g) = 0
    \/ rx_off # 0 /\ RxCount(test, g) = 0

\* update in the values from iteration values; the length goes into an
\* unsigned int
PatchXfer(x, length, tx_off, rx_off) ==
    LET l == IF length # 0 THEN length % WORD32 ELSE x.len
        t == IF x.tx_buf # NULL THEN PtrAdd(x.tx_buf, tx_off) ELSE x.tx_buf
        r == IF t # NULL THEN PtrAdd(x.rx_buf, rx_off) ELSE x.rx_buf
    IN  Xfer(l, t, r)

Patch(test, length, tx_off, rx_off) ==
    IF length = 0 /\ tx_off = 0 /\ rx_off = 0 THEN test
    ELSE [test EXCEPT !.transfers =
            [i \in 1 .. SPI_TEST_MAX_TRANSFERS |->
                IF i <= test.transfer_count
                THEN PatchXfer(test.transfers[i], length, tx_off, rx_off)
                ELSE test.transfers[i]]]

\* one call: what it has done, whether it returned early, and the working
\* copy handed to _spi_test_run
Iterated(r, skipped, work) ==
    [ret |-> r.ret, mem |-> r.mem, ev |-> r.ev, raw |-> r.raw,
     msg |-> r.msg, skipped |-> skipped, work |-> work]

spi_test_run_iter(testtemplate, txb, rxb, length, tx_off, rx_off, m, o, g) ==
    LET test == SetCount(testtemplate)
        work == Patch(test, length, tx_off, rx_off)
    IN  IF SkipIter(test, tx_off, rx_off, g)
        THEN Iterated(Ran(0, m, <<>>, NotRun, <<>>), TRUE, test)
        ELSE Iterated(spi_test_run_(work, txb, rxb, m, o), FALSE, work)

---------------------------------------------------------------------------
(* spi_test_run and spi_test_probe, step by step *)

\* a bound that ignores the controller's dma_alignment
AlignBoundNoDma(iterate_align) ==
    IF iterate_align # 0 THEN iterate_align ELSE 1
\* FOR_EACH_ALIGNMENT: the exclusive bound of the loop over an alignment
AlignBound(iterate_align) ==
    IF iterate_align # 0
    THEN (IF dma_alignment # 0 THEN dma_alignment ELSE iterate_align)
    ELSE 1

\* what the uninitialised counters may hold: any int; here the values
\* around the one, 0, that makes them count from nothing
GarbageMax == 1
Garbage == {[tx |-> a, rx |-> b] : a, b \in -GarbageMax .. GarbageMax}
NoGarbage == [tx |-> 0, rx |-> 0]

\* what the transport may do with a message: fail, lose a byte, or
\* run it
SyncOutcomes ==
    {SyncOutcome(-EIO, 0, wire), SyncOutcome(-EINVAL, 0, wire),
     SyncOutcome(0, 1, wire), SyncOutcome(0, 0, wire)}
\* the transport is not asked in simulate_only mode nor by custom test code
OutcomesFor(test) ==
    IF simulate_only # 0 \/ test.test.custom
    THEN {SyncOutcome(0, 0, wire)} ELSE SyncOutcomes

\* the call spi_test_run makes at the current iteration point
IterCall(o) ==
    spi_test_run_iter(spi_tests[test_i], tx, rx, len, tx_align, rx_align,
                      mem, o, stack)

\* what a call would leave in the catalog entry if it patched the entry itself
TemplateAfterInPlace(testtemplate, r) == r.work
\* what a call leaves in the catalog entry it was handed: the entry is const
\* and is copied into a local before anything is patched, so all the
\* changes of the call land in the copy
TemplateAfter(testtemplate, r) == testtemplate

\* the history of one call
Point(r) ==
    [test |-> test_i, idx |-> idx_len, len |-> len, tx_off |-> tx_align,
     rx_off |-> rx_align, ret |-> r.ret, skipped |-> r.skipped, ev |-> r.ev, raw |-> r.raw]
Detail(r, o) ==
    [skipped |-> r.skipped, work |-> r.work, msg |-> r.msg, sync |-> o,
     template |-> spi_tests[test_i]]

Build == <<big_endian, ptr_wide, devm_tx>>
Switches == <<simulate_only, dump_messages, loopback, dma_alignment, wire,
              stack>>
Params == <<Switches, spi_tests>>
Alone == <<call, result>>

\* rx = kzalloc(SPI_TEST_MAX_SIZE_PLUS, GFP_KERNEL)
AllocRx ==
    /\ pc = "alloc_rx"
    /\ rx' = RxBuffer
    /\ pc' = "alloc_tx"
    /\ UNCHANGED <<Build, Params, Alone, tx, freed, test_i, idx_len, len,
                   tx_align, rx_align, ret, mem, trace, max_idx, last>>

AllocRxFails ==
    /\ pc = "alloc_rx"
    /\ ret' = -ENOMEM
    /\ pc' = "out"
    /\ UNCHANGED <<Build, Params, Alone, rx, tx, freed, test_i, idx_len, len,
                   tx_align, rx_align, mem, trace, max_idx, last>>

\* tx = kzalloc(SPI_TEST_MAX_SIZE_PLUS, GFP_KERNEL)
AllocTx ==
    /\ pc = "alloc_tx"
    /\ tx' = TxBuffer
    /\ test_i' = 1
    /\ pc' = "tests"
    /\ UNCHANGED <<Build, Params, Alone, rx, freed, idx_len, len, tx_align,
                   rx_align, ret, mem, trace, max_idx, last>>

AllocTxFails ==
    /\ pc = "alloc_tx"
    /\ ret' = -ENOMEM
    /\ pc' = "out"
    /\ UNCHANGED <<Build, Params, Alone, rx, tx, freed, test_i, idx_len, len,
                   tx_align, rx_align, mem, trace, max_idx, last>>

\* the loop over the table ends at the entry without a description
TestsDone ==
    /\ pc = "tests"
    /\ test_i > Len(spi_tests)
    /\ pc' = "out"
    /\ UNCHANGED <<Build, Params, Alone, rx, tx, freed, test_i, idx_len, len,
                   tx_align, rx_align, ret, mem, trace, max_idx, last>>

\* the mutant: the limit is not tested
TooManyNever(test) == FALSE

\* test for transfer limits
TooMany(test) == test.transfer_count >= SPI_TEST_MAX_TRANSFERS

\* spi_test_run returns -E2BIG
RunTooBig ==
    /\ pc = "tests"
    /\ test_i <= Len(spi_tests)
    /\ TooMany(spi_tests[test_i])
    /\ ret' = -E2BIG
    /\ pc' = "out"
    /\ UNCHANGED <<Build, Params, Alone, rx, tx, freed, test_i, idx_len, len,
                   tx_align, rx_align, mem, trace, max_idx, last>>

\* spi_test_run enters its loops: idx_len = -1, len = 0 and both
\* alignments 0
RunBegin ==
    /\ pc = "tests"
    /\ test_i <= Len(spi_tests)
    /\ ~TooMany(spi_tests[test_i])
    /\ idx_len' = -1
    /\ len' = 0
    /\ tx_align' = 0
    /\ rx_align' = 0
    /\ pc' = "iter"
    /\ UNCHANGED <<Build, Params, Alone, rx, tx, freed, test_i, ret, mem,
                   trace, max_idx, last>>

\* the mutant: a failing iteration is not noticed
IterFailedNever(r) == FALSE

\* if (ret) return ret;
IterFailed(r) == r.ret # 0

\* the iteration fails: spi_test_run returns its result and
\* spi_test_probe leaves the loop over the table
IterFails(r) ==
    /\ IterFailed(r)
    /\ ret' = r.ret
    /\ pc' = "out"
    /\ UNCHANGED <<test_i, idx_len, len, tx_align, rx_align, max_idx>>

\* the iteration succeeds and the rx_align loop goes on
IterNextRx(r) ==
    /\ ~IterFailed(r)
    /\ rx_align + 1 < AlignBound(spi_tests[test_i].iterate_rx_align)
    /\ rx_align' = rx_align + 1
    /\ UNCHANGED <<test_i, idx_len, len, tx_align, ret, pc, max_idx>>

\* the iteration succeeds, the rx_align loop ends and the tx_align loop
\* goes on
IterNextTx(r) ==
    /\ ~IterFailed(r)
    /\ ~(rx_align + 1 < AlignBound(spi_tests[test_i].iterate_rx_align))
    /\ tx_align + 1 < AlignBound(spi_tests[test_i].iterate_tx_align)
    /\ rx_align' = 0
    /\ tx_align' = tx_align + 1
    /\ UNCHANGED <<test_i, idx_len, len, ret, pc, max_idx>>

\* a len loop that ends after the first entry of iterate_len
LenGoesOnOnce(test, i) == i < 1 /\ test.iterate_len[i + 1] # 0
\* FOR_EACH_ITERATE: whether the loop goes on at index i; iterate_len[i]
\* is read only below SPI_TEST_MAX_ITERATE
LenGoesOn(test, i) ==
    i < 0 \/ (i < SPI_TEST_MAX_ITERATE /\ test.iterate_len[i + 1] # 0)

\* the iteration succeeds, both alignment loops end and the len loop goes
\* on with the next entry of iterate_len
IterNextLen(r) ==
    /\ ~IterFailed(r)
    /\ ~(rx_align + 1 < AlignBound(spi_tests[test_i].iterate_rx_align))
    /\ ~(tx_align + 1 < AlignBound(spi_tests[test_i].iterate_tx_align))
    /\ LenGoesOn(spi_tests[test_i], idx_len + 1)
    /\ rx_align' = 0
    /\ tx_align' = 0
    /\ idx_len' = idx_len + 1
    /\ len' = spi_tests[test_i].iterate_len[idx_len + 2]
    /\ max_idx' = IF idx_len + 1 > max_idx THEN idx_len + 1 ELSE max_idx
    /\ UNCHANGED <<test_i, ret, pc>>

\* the iteration succeeds and was the last one: spi_test_run returns 0 and
\* spi_test_probe steps to the next entry of the table
IterLast(r) ==
    /\ ~IterFailed(r)
    /\ ~(rx_align + 1 < AlignBound(spi_tests[test_i].iterate_rx_align))
    /\ ~(tx_align + 1 < AlignBound(spi_tests[test_i].iterate_tx_align))
    /\ ~LenGoesOn(spi_tests[test_i], idx_len + 1)
    /\ rx_align' = 0
    /\ tx_align' = 0
    /\ idx_len' = idx_len + 1
    /\ len' = IF idx_len + 1 < SPI_TEST_MAX_ITERATE THEN 0 ELSE len
    /\ max_idx' = IF idx_len + 1 < SPI_TEST_MAX_ITERATE /\ idx_len + 1 > max_idx
                  THEN idx_len + 1 ELSE max_idx
    /\ ret' = 0
    /\ test_i' = test_i + 1
    /\ pc' = "tests"

\* the body of the loops of spi_test_run: the call of spi_test_run_iter
\* at the current iteration point, and the step of the loops after it
RunIter ==
    /\ pc = "iter"
    /\ \E o \in OutcomesFor(spi_tests[test_i]) :
          LET r == IterCall(o)
          IN  /\ mem' = r.mem
              /\ trace' = Append(trace, Point(r))
              /\ last' = Detail(r, o)
              /\ spi_tests' = [spi_tests EXCEPT
                                  ![test_i] = TemplateAfter(spi_tests[test_i], r)]
              /\ \/ IterFails(r)
                 \/ IterNextRx(r)
                 \/ IterNextTx(r)
                 \/ IterNextLen(r)
                 \/ IterLast(r)
    /\ UNCHANGED <<Build, Switches, Alone, rx, tx, freed>>

\* out: kfree(rx); kfree(tx); return ret;
ProbeOut ==
    /\ pc = "out"
    /\ freed' = <<rx, tx>>
    /\ pc' = "done"
    /\ UNCHANGED <<Build, Params, Alone, rx, tx, test_i, idx_len, len,
                   tx_align, rx_align, ret, mem, trace, max_idx, last>>

\* the driver core, after spi_test_probe has returned: what devm_kzalloc
\* gave is released with the device's resources (at once when the probe
\* failed, else when the driver is unbound)
DevresRelease ==
    /\ pc = "done"
    /\ devm_tx
    /\ tx # NULL
    /\ freed' = Append(freed, tx)
    /\ pc' = "detached"
    /\ UNCHANGED <<Build, Params, Alone, rx, tx, test_i, idx_len, len,
                   tx_align, rx_align, ret, mem, trace, max_idx, last>>

---------------------------------------------------------------------------
(* The catalogs the harness is run on *)

\* bounds of the catalogs below
MaxAlign == 2
MaxDma == 3

\* transfer lists
FullDuplex == <<Xfer(1, TX(0), RX(0))>>
TxOnly == <<Xfer(1, TX(0), NULL)>>
RxOnly == <<Xfer(1, NULL, RX(0))>>
TwoXfers == <<Xfer(2, TX(0), NULL), Xfer(3, TX(PAGE_SIZE), RX(PAGE_SIZE))>>
FourXfers == <<Xfer(1, TX(0), RX(0)), Xfer(1, TX(1), RX(1)),
               Xfer(1, TX(2), RX(2)), Xfer(1, TX(3), RX(3))>>
OutOfRange == <<Xfer(2, TX(SPI_TEST_MAX_SIZE_PLUS - 1), RX(0))>>
\* a length that carries TX(1) + len past the end of a 32-bit address space
Wrapping == <<Xfer(WORD32 - TX_START, TX(1), NULL)>>
\* the placeholders of the other region in each of the two fields
Crossed == <<Xfer(2, RX(0), TX(0))>>

\* length axes: none, the two entries [16, 32], a zero entry before a
\* non-zero one, and all SPI_TEST_MAX_ITERATE entries set
LenAxes == {<<>>, <<16, 32>>, <<2, 0, 3>>,
            [i \in 1 .. SPI_TEST_MAX_ITERATE |-> i]}

\* cases that differ in their iteration axes
IterationCases ==
    {Test("iterate len", il, 0, 0, NoTest, 0, 0, FullDuplex, 0,
          FILL_COUNT_8) : il \in LenAxes}
    \cup
    {Test("iterate", il, ta, ra, NoTest, 0, 0, FullDuplex, 0, FILL_COUNT_8) :
        il \in {<<>>, <<16, 32>>}, ta \in {0, MaxAlign}, ra \in {0, MaxAlign}}
    \cup
    {Test("iterate one way", <<16, 32>>, MaxAlign, MaxAlign, NoTest, 0, 0,
          xs, 0, FILL_COUNT_8) : xs \in {TxOnly, RxOnly}}

\* cases that differ in the executed path and the result expected of it
VerifierResults == {0, -EINVAL, -EIO}
OutcomeCases ==
    {Test("outcome", <<>>, 0, 0, t, e, 0, FullDuplex, 0, FILL_COUNT_8) :
        t \in {NoTest} \cup {Custom(r) : r \in VerifierResults},
        e \in {0, -EINVAL}}
    \cup
    {Test("two transfers", <<2>>, 0, 0, NoTest, e, 0, TwoXfers, 0, fo) :
        e \in {0, -EIO}, fo \in {FILL_COUNT_16, FILL_TRANSFER_NUM}}

\* cases that declare their number of transfers
CountCases ==
    {Test("count", <<>>, 0, 0, NoTest, 0, tc, FourXfers, 0, FILL_COUNT_8) :
        tc \in 0 .. SPI_TEST_MAX_TRANSFERS + 1}

\* cases that fail before anything is executed
BrokenCases ==
    {Test("out of range", <<>>, 0, 0, NoTest, 0, 0, OutOfRange, 0,
          FILL_COUNT_8),
     Test("unknown fill", <<>>, 0, 0, NoTest, 0, 0, FullDuplex, 0,
          FILL_TRANSFER_BYTE_32 + 1),
     Test("unknown fill, nothing to send", <<>>, 0, 0, NoTest, 0, 0, RxOnly,
          0, FILL_TRANSFER_BYTE_32 + 1)}

\* cases whose placeholders pass the range test without naming a range of
\* the buffer their field is for
StrayCases ==
    {Test("wrapping length", <<>>, 0, 0, NoTest, 0, 0, Wrapping, 0,
          FILL_COUNT_8),
     Test("crossed placeholders", <<>>, 0, 0, NoTest, 0, 0, Crossed, 0,
          FILL_COUNT_8)}

Cases == IterationCases \cup OutcomeCases \cup CountCases \cup BrokenCases
         \cup StrayCases

\* the case that follows another in a catalog of two
SecondCase ==
    Test("second", <<1>>, 0, 0, NoTest, 0, 0, TxOnly, 0, FILL_COUNT_8)

\* the catalog the module ships.  The lengths of ITERATE_LEN below a page
\* are byte counts of a page of PageBytes bytes: they are brought to the
\* page of the model, rounded up, so that each stays a length of at least
\* one byte and below a page; the last two entries are the page and the
\* largest transfer themselves
PageBytes == 4096
Scale(v) == (v * PAGE_SIZE + PageBytes - 1) \div PageBytes
ITERATE_LEN == <<Scale(16), Scale(32), Scale(64), Scale(128), Scale(256),
                 Scale(1024), PAGE_SIZE, SPI_TEST_MAX_SIZE>>
\* sizeof(int)
ITERATE_ALIGN == 4
Shipped ==
    <<Test("tx/rx-transfer - start of page", ITERATE_LEN, ITERATE_ALIGN,
           ITERATE_ALIGN, NoTest, 0, 0, <<Xfer(1, TX(0), RX(0))>>, 0,
           FILL_COUNT_8),
      Test("tx/rx-transfer - crossing PAGE_SIZE", ITERATE_LEN, ITERATE_ALIGN,
           ITERATE_ALIGN, NoTest, 0, 0,
           <<Xfer(1, TX(PAGE_SIZE - 4), RX(PAGE_SIZE - 4))>>, 0,
           FILL_COUNT_8),
      Test("tx-transfer - only", ITERATE_LEN, ITERATE_ALIGN, 0, NoTest, 0, 0,
           <<Xfer(1, TX(0), NULL)>>, 0, FILL_COUNT_8),
      Test("rx-transfer - only", ITERATE_LEN, 0, ITERATE_ALIGN, NoTest, 0, 0,
           <<Xfer(1, NULL, RX(0))>>, 0, FILL_COUNT_8)>>

\* the catalogs of one case, and of the case and a second one
Alone1(cs) == {<<c>> : c \in cs}
Followed(cs) == {<<c, SecondCase>> : c \in cs}

---------------------------------------------------------------------------
(* The harness: spi_test_probe from its call to its return *)

NoCall == "none"

\* runs that differ in how a case is iterated: the controller's
\* dma_alignment and what the stack holds for the uninitialised counters.
\* The loops do no byte-order work and add only small offsets to the
\* placeholders: one build stands for all
IterationRuns ==
    /\ big_endian = FALSE
    /\ ptr_wide = FALSE
    /\ devm_tx = FALSE
    /\ spi_tests \in Alone1(IterationCases)
    /\ dma_alignment \in {0, MaxDma}
    /\ stack \in IF spi_tests[1].iterate_tx_align # 0
                    \/ spi_tests[1].iterate_rx_align # 0
                 THEN Garbage ELSE {NoGarbage}
    /\ simulate_only \in {0, 1}
    /\ dump_messages = 0
    /\ loopback = 0
    /\ wire = "echo"

\* runs that differ in how a message is executed: the module parameters
\* and what comes back on the receive line
ExecutionRuns ==
    /\ big_endian \in BOOLEAN
    /\ ptr_wide \in BOOLEAN
    /\ devm_tx = FALSE
    /\ spi_tests \in Alone1(OutcomeCases \cup CountCases \cup BrokenCases
                             \cup StrayCases)
                     \cup Followed(OutcomeCases \cup CountCases
                                   \cup BrokenCases)
    /\ dma_alignment = 0
    /\ stack = NoGarbage
    /\ simulate_only \in {0, 1}
    /\ dump_messages \in {0, 1, 2}
    /\ loopback \in {0, 1}
    /\ wire \in IF simulate_only = 0 /\ loopback # 0
                THEN {"echo", "echo_but_last", "five"} ELSE {"echo"}

\* runs of the driver whose spi_test_probe takes tx from devm_kzalloc:
\* what spi_test_probe does with its buffers does not depend on what
\* the cases do, only on whether one fails
CleanupRuns ==
    /\ big_endian = FALSE
    /\ ptr_wide = FALSE
    /\ devm_tx = TRUE
    /\ spi_tests \in Alone1(BrokenCases) \cup Followed(BrokenCases)
                     \cup {<<>>}
    /\ dma_alignment = 0
    /\ stack = NoGarbage
    /\ simulate_only = 1
    /\ dump_messages = 0
    /\ loopback = 0
    /\ wire = "echo"

\* what the uninitialised counters may hold in a run of the shipped
\* catalog: its cases have one transfer, so a counter is either 0 after
\* the counting loop (it started at -1) or it is not (here: started at 0)
ShippedStacks == {[tx |-> a, rx |-> b] : a, b \in {-1, 0}}

\* runs of the shipped catalog in simulate-only mode, on controllers with
\* a dma_alignment of up to sizeof(int)
ShippedRuns ==
    /\ big_endian = FALSE
    /\ ptr_wide = FALSE
    /\ devm_tx = FALSE
    /\ spi_tests = Shipped
    /\ dma_alignment \in 0 .. ITERATE_ALIGN
    /\ stack \in ShippedStacks
    /\ simulate_only = 1
    /\ dump_messages = 0
    /\ loopback = 0
    /\ wire = "echo"

\* spi_test_probe is called
Called ==
    /\ pc = "alloc_rx"
    /\ rx = NULL
    /\ tx = NULL
    /\ freed = <<>>
    /\ test_i = 0
    /\ idx_len = 0
    /\ len = 0
    /\ tx_align = 0
    /\ rx_align = 0
    /\ ret = 0
    /\ mem = ZeroMem
    /\ trace = <<>>
    /\ max_idx = -1
    /\ last = NoCall
    /\ call = NoCall
    /\ result = NoCall

Init ==
    /\ IterationRuns \/ ExecutionRuns \/ CleanupRuns \/ ShippedRuns
    /\ Called

Next ==
    \/ AllocRx
    \/ AllocRxFails
    \/ AllocTx
    \/ AllocTxFails
    \/ TestsDone
    \/ RunTooBig
    \/ RunBegin
    \/ RunIter
    \/ ProbeOut
    \/ DevresRelease

Spec == Init /\ [][Next]_vars

---------------------------------------------------------------------------
(* Claims about the harness, checked under Spec *)

\* the calls of spi_test_run_iter made for case n, in the order made
PointsOf(tr, n) == SelectSeq(tr, LAMBDA p : p.test = n)

\* spi_test_run has returned 0 for case n
CaseDone(n) == n < test_i

\* spi_test_probe has left its loop over the table, or returned
Left == pc \in {"out", "done", "detached"}

\* (test, idx_len, tx_off, rx_off) of p comes before that of q
Before(p, q) ==
    \/ p.test < q.test
    \/ p.test = q.test /\ p.idx < q.idx
    \/ p.test = q.test /\ p.idx = q.idx /\ p.tx_off < q.tx_off
    \/ p.test = q.test /\ p.idx = q.idx /\ p.tx_off = q.tx_off
       /\ p.rx_off < q.rx_off

\* C1: the calls are made in the order of the table and, within a case, in
\* the order of the loops; a call that returns non-zero is the last call
\* ever made, the loop over the table is left at once, and what
\* spi_test_probe returns is that result.
C1_AbortOnFirstFailure ==
    /\ \A k \in 1 .. Len(trace) - 1 :
          /\ trace[k].ret = 0
          /\ Before(trace[k], trace[k + 1])
    /\ trace # <<>> /\ trace[Len(trace)].ret # 0 =>
          Left /\ ret = trace[Len(trace)].ret

\* C1 happens: the first case of a table of two has failed, the second
\* case was never run and spi_test_probe has returned the failure
C1_Witness ==
    /\ pc = "done"
    /\ Len(spi_tests) = 2
    /\ trace # <<>>
    /\ trace[Len(trace)].test = 1
    /\ trace[Len(trace)].ret # 0
    /\ ret = trace[Len(trace)].ret

\* C2: whenever the executed path (custom test code or
\* spi_test_execute_msg) has produced r for a case that expects e, the
\* call returns 0 if r = e, r itself if r # e and r # 0, and -EFAULT if
\* r # e and r = 0.
C2_OutcomeMatching ==
    \A k \in 1 .. Len(trace) :
        LET r == trace[k].raw.ret
            e == spi_tests[trace[k].test].expected_return
        IN  trace[k].raw.ran =>
               /\ r = e => trace[k].ret = 0
               /\ r # e /\ r # 0 => trace[k].ret = r
               /\ r # e /\ r = 0 => trace[k].ret = -EFAULT

\* C2 happens: the executed path succeeded where an error was expected
C2_Witness ==
    /\ trace # <<>>
    /\ trace[Len(trace)].raw.ran
    /\ trace[Len(trace)].raw.ret = 0
    /\ spi_tests[trace[Len(trace)].test].expected_return = -EINVAL
    /\ trace[Len(trace)].ret = -EFAULT

\* the entries of iterate_len that are not zero
NonZeroEntries(test) ==
    Cardinality({i \in 1 .. SPI_TEST_MAX_ITERATE : test.iterate_len[i] # 0})

\* the entries of iterate_len before the first zero entry
RECURSIVE LeadingEntries(_, _)
LeadingEntries(test, i) ==
    IF i <= SPI_TEST_MAX_ITERATE /\ test.iterate_len[i] # 0
    THEN <<test.iterate_len[i]>> \o LeadingEntries(test, i + 1)
    ELSE <<>>

\* only the length axis of the case is active
OnlyLenAxis(test) ==
    test.iterate_tx_align = 0 /\ test.iterate_rx_align = 0

\* C6 as stated: a case with only its length axis active, run without a
\* failure, makes as many calls as iterate_len has non-zero entries (2 for
\* [16, 32]).
C6_AsStated ==
    \A n \in 1 .. Len(spi_tests) :
        CaseDone(n) /\ OnlyLenAxis(spi_tests[n]) =>
            Len(PointsOf(trace, n)) = NonZeroEntries(spi_tests[n])

\* C6 amended: a case with only its length axis active, run without a
\* failure, makes one call with the length unset and one call for every
\* entry of iterate_len before the first zero entry (3 for [16, 32]).
C6_UnsetThenEachEntry ==
    \A n \in 1 .. Len(spi_tests) :
        CaseDone(n) /\ OnlyLenAxis(spi_tests[n]) =>
            /\ Len(PointsOf(trace, n)) =
                  1 + Len(LeadingEntries(spi_tests[n], 1))
            /\ \A k \in 1 .. Len(PointsOf(trace, n)) :
                  ~PointsOf(trace, n)[k].skipped

\* C6 happens: the case with the length axis [16, 32] has run through,
\* with the lengths 0 (unset), 16 and 32
C6_Witness ==
    /\ CaseDone(1)
    /\ OnlyLenAxis(spi_tests[1])
    /\ LeadingEntries(spi_tests[1], 1) = <<16, 32>>
    /\ NonZeroEntries(spi_tests[1]) = 2
    /\ [k \in 1 .. Len(trace) |-> trace[k].len] = <<0, 16, 32>>

\* the bound of an alignment axis as C7 states it
C7Bound(a) == IF a = 0 THEN 1 ELSE IF dma_alignment # 0 THEN dma_alignment
                                   ELSE a

\* the k-th iteration point (from 0) of the product
\* <0, e1, ..., en> x 0 .. T-1 x 0 .. R-1 in lexicographic order
C7Point(test, k) ==
    LET lens == <<0>> \o LeadingEntries(test, 1)
        T == C7Bound(test.iterate_tx_align)
        R == C7Bound(test.iterate_rx_align)
    IN  [len |-> lens[(k \div (T * R)) + 1],
         tx_off |-> (k \div R) % T,
         rx_off |-> k % R]
C7Count(test) ==
    (1 + Len(LeadingEntries(test, 1))) * C7Bound(test.iterate_tx_align)
        * C7Bound(test.iterate_rx_align)

\* C7: the calls made for a case are, in this order, the iteration points
\* of <0, e1, ..., en> x 0 .. T-1 x 0 .. R-1; all of them once the case
\* has run through without a failure; and iterate_len is never read at an
\* index of SPI_TEST_MAX_ITERATE or more.
C7_EnumerationOrder ==
    /\ \A n \in 1 .. Len(spi_tests) :
          LET ps == PointsOf(trace, n)
          IN  /\ Len(ps) <= C7Count(spi_tests[n])
              /\ \A k \in 1 .. Len(ps) :
                    [len |-> ps[k].len, tx_off |-> ps[k].tx_off,
                     rx_off |-> ps[k].rx_off] = C7Point(spi_tests[n], k - 1)
              /\ CaseDone(n) => Len(ps) = C7Count(spi_tests[n])
    /\ max_idx < SPI_TEST_MAX_ITERATE

\* C7 happens: a case with both alignment axes configured has run through
\* on a controller that reports a dma_alignment of its own
C7_Witness ==
    /\ CaseDone(1)
    /\ dma_alignment = MaxDma
    /\ spi_tests[1].iterate_tx_align = MaxAlign
    /\ spi_tests[1].iterate_rx_align = MaxAlign
    /\ LeadingEntries(spi_tests[1], 1) = <<16, 32>>
    /\ Len(trace) = 3 * MaxDma * MaxDma

\* what the latest call did after the fill, without the dump
AfterFill(ev) ==
    SelectSeq(ev, LAMBDA e : e \in {"custom", "spi_sync", "length_check",
                                    "loopback"})

\* C8: when the default path has run in the latest call: in simulate_only
\* mode the transport was not called and the result is 0; otherwise the
\* transport was called once, first of all, and (1) its error is the
\* result, with no length check and no loopback check, else (2) if
\* actual_length differs from frame_length the result is -EIO, with no
\* loopback check, else (3) with loopback set the loopback check has run,
\* last, and its result is the result, and with loopback off the result
\* is 0.
C8_ExecutionOrder ==
    trace # <<>> /\ trace[Len(trace)].raw.ran
    /\ ~spi_tests[trace[Len(trace)].test].test.custom =>
        LET p == trace[Len(trace)]
            o == last.sync
            did == AfterFill(p.ev)
            short == o.lost # 0 /\ o.lost <= FrameLength(last.msg)
        IN  IF simulate_only # 0 THEN did = <<>> /\ p.raw.ret = 0
            ELSE IF o.status # 0
            THEN did = <<"spi_sync">> /\ p.raw.ret = o.status
            ELSE IF short
            THEN did = <<"spi_sync", "length_check">> /\ p.raw.ret = -EIO
            ELSE IF loopback # 0
            THEN /\ did = <<"spi_sync", "length_check", "loopback">>
                 /\ p.raw.ret =
                       spi_test_check_loopback_result(mem, last.msg).ret
            ELSE did = <<"spi_sync", "length_check">> /\ p.raw.ret = 0

\* C8 happens: the transport ran the message, the lengths agreed and the
\* loopback check failed it
C8_Witness ==
    /\ trace # <<>>
    /\ simulate_only = 0
    /\ loopback # 0
    /\ AfterFill(trace[Len(trace)].ev) =
          <<"spi_sync", "length_check", "loopback">>
    /\ trace[Len(trace)].raw.ret = -EINVAL
    /\ last.sync.status = 0

\* C9: a case that declares SPI_TEST_MAX_TRANSFERS transfers or more is
\* never handed to spi_test_run_iter (nothing is translated, filled or
\* submitted for it), and when spi_test_probe comes to it, it leaves its
\* loop with -E2BIG.
C9_TooManyTransfers ==
    /\ \A k \in 1 .. Len(trace) :
          spi_tests[trace[k].test].transfer_count < SPI_TEST_MAX_TRANSFERS
    /\ \A n \in 1 .. Len(spi_tests) :
          spi_tests[n].transfer_count >= SPI_TEST_MAX_TRANSFERS
          /\ test_i = n /\ pc # "tests" =>
              Left /\ ret = -E2BIG /\ PointsOf(trace, n) = <<>>

\* C9 happens: the first case of a table of two declares
\* SPI_TEST_MAX_TRANSFERS transfers, and spi_test_probe has returned
\* -E2BIG without a single call of spi_test_run_iter
C9_Witness ==
    /\ pc = "done"
    /\ test_i = 1
    /\ Len(spi_tests) = 2
    /\ spi_tests[1].transfer_count = SPI_TEST_MAX_TRANSFERS
    /\ ret = -E2BIG
    /\ rx # NULL
    /\ trace = <<>>

\* the fill_option of the case of call k is one of the defined selectors
DefinedFill(k) ==
    spi_tests[trace[k].test].fill_option \in (0 .. 11) \cup {16}

\* C11: a call for a case whose fill_option is none of the defined
\* selectors, whatever its transfers are, returns -EINVAL, and the
\* message is not executed.
C11_AsStated ==
    \A k \in 1 .. Len(trace) :
        ~DefinedFill(k) /\ ~trace[k].skipped =>
            /\ trace[k].ret = -EINVAL
            /\ ~trace[k].raw.ran
            /\ AfterFill(trace[k].ev) = <<>>

\* where C11 fails: the case has an undefined fill_option and nothing to
\* send; the fill pass returns 0, the message goes to the transport and
\* the call returns 0
C11_Silent ==
    /\ trace # <<>>
    /\ ~DefinedFill(Len(trace))
    /\ \A i \in 1 .. SPI_TEST_MAX_TRANSFERS :
          spi_tests[trace[Len(trace)].test].transfers[i].tx_buf = NULL
    /\ trace[Len(trace)].raw.ran
    /\ AfterFill(trace[Len(trace)].ev) = <<"spi_sync", "length_check">>
    /\ trace[Len(trace)].ret = 0

\* spi_test_dump_message was called in call k
Dumped(k) ==
    \E i \in 1 .. Len(trace[k].ev) : trace[k].ev[i] \in {"dump", "dump_data"}

\* C12: a call that returns non-zero, for whatever reason, has dumped its
\* message, whatever dump_messages is; and with dump_messages set, every
\* message that went through spi_test_execute_msg was dumped.
C12_AsStated ==
    \A k \in 1 .. Len(trace) :
        /\ trace[k].ret # 0 => Dumped(k)
        /\ dump_messages # 0 /\ trace[k].raw.ran
           /\ ~spi_tests[trace[k].test].test.custom => Dumped(k)

\* where C12 fails: the message was executed and succeeded where an error
\* was expected; the call returns -EFAULT and, with dump_messages off,
\* nothing was dumped
C12_Silent ==
    /\ trace # <<>>
    /\ dump_messages = 0
    /\ ~spi_tests[trace[Len(trace)].test].test.custom
    /\ trace[Len(trace)].raw.ran
    /\ trace[Len(trace)].raw.ret = 0
    /\ trace[Len(trace)].ret = -EFAULT
    /\ ~Dumped(Len(trace))

\* how often the buffer b was released
Released(b) == Cardinality({i \in 1 .. Len(freed) : freed[i] = b})

\* spi_test_probe has returned
Returned == pc \in {"done", "detached"}

\* C13: nothing is released before spi_test_probe has passed its cleanup
\* point, and no case runs after it; a buffer that was allocated is never
\* released twice, and has been released once spi_test_probe has
\* returned; if an allocation failed, no case was run and the result is
\* -ENOMEM.
C13_AsStated ==
    /\ freed # <<>> => Returned
    /\ \A b \in {rx, tx} \ {NULL} :
          /\ Released(b) <= 1
          /\ Returned => Released(b) = 1
    /\ Returned /\ (rx = NULL \/ tx = NULL) =>
          trace = <<>> /\ ret = -ENOMEM

\* where C13 fails: tx came from devm_kzalloc, spi_test_probe has handed
\* it to kfree, and the driver core has released it once more
C13_ReleasedTwice ==
    /\ pc = "detached"
    /\ devm_tx
    /\ tx # NULL
    /\ freed = <<rx, tx, tx>>

\* C14: in the working copy of the latest call, unless it was skipped,
\* every transfer has the length len if len # 0 and its declared length
\* otherwise, a tx_buf of the template is advanced by tx_off, an rx_buf of
\* the template is advanced by rx_off, and a buffer that is NULL in the
\* template is NULL in the working copy.
C14_AsStated ==
    trace # <<>> /\ ~trace[Len(trace)].skipped =>
        LET p == trace[Len(trace)]
            t == spi_tests[p.test].transfers
            w == last.work
        IN  \A i \in 1 .. w.transfer_count :
                /\ w.transfers[i].len = IF p.len # 0 THEN p.len ELSE t[i].len
                /\ t[i].tx_buf # NULL =>
                      w.transfers[i].tx_buf = t[i].tx_buf + p.tx_off
                /\ t[i].rx_buf # NULL =>
                      w.transfers[i].rx_buf = t[i].rx_buf + p.rx_off
                /\ t[i].tx_buf = NULL => w.transfers[i].tx_buf = NULL
                /\ t[i].rx_buf = NULL => w.transfers[i].rx_buf = NULL

\* where C14 fails: a transfer that only receives, at rx_off = 1: the
\* call is not skipped and rx_buf is where the template has it
C14_RxNotAdvanced ==
    /\ trace # <<>>
    /\ ~trace[Len(trace)].skipped
    /\ trace[Len(trace)].rx_off = 1
    /\ spi_tests[trace[Len(trace)].test].transfers[1] = Xfer(1, NULL, RX(0))
    /\ last.work.transfer_count = 1
    /\ last.work.transfers[1].rx_buf = RX(0)

\* and a transfer that only sends, at rx_off = 1, gets an rx_buf
C14_RxFromNull ==
    /\ trace # <<>>
    /\ ~trace[Len(trace)].skipped
    /\ trace[Len(trace)].rx_off = 1
    /\ spi_tests[trace[Len(trace)].test].transfers[1].rx_buf = NULL
    /\ last.work.transfers[1].rx_buf = 1

\* the case of call k has a transfer with a tx_buf (an rx_buf)
Sends(k) ==
    \E i \in 1 .. SetCount(spi_tests[trace[k].test]).transfer_count :
        spi_tests[trace[k].test].transfers[i].tx_buf # NULL
Receives(k) ==
    \E i \in 1 .. SetCount(spi_tests[trace[k].test]).transfer_count :
        spi_tests[trace[k].test].transfers[i].rx_buf # NULL

\* C15: a call returns early, with 0 and nothing translated, filled or
\* submitted, if and only if tx_off # 0 and no transfer of the case has a
\* tx_buf, or rx_off # 0 and no transfer of the case has an rx_buf; every
\* other call builds and executes its message.
C15_AsStated ==
    \A k \in 1 .. Len(trace) :
        /\ trace[k].skipped <=>
              \/ trace[k].tx_off # 0 /\ ~Sends(k)
              \/ trace[k].rx_off # 0 /\ ~Receives(k)
        /\ trace[k].skipped => trace[k].ret = 0 /\ trace[k].ev = <<>>
        /\ ~trace[k].skipped => trace[k].ev # <<>>

\* where C15 fails: no transfer of the case sends, tx_off is 1, and the
\* call is not skipped, because tx_count started from what the stack held
C15_NotSkipped ==
    /\ trace # <<>>
    /\ trace[Len(trace)].tx_off = 1
    /\ ~Sends(Len(trace))
    /\ ~trace[Len(trace)].skipped
    /\ stack.tx # 0

\* and a case that does receive is skipped at rx_off = 1
C15_SkippedAnyway ==
    /\ trace # <<>>
    /\ trace[Len(trace)].tx_off = 0
    /\ trace[Len(trace)].rx_off = 1
    /\ Receives(Len(trace))
    /\ trace[Len(trace)].skipped
    /\ stack.rx < 0

\* C17: a call never changes the catalog entry it is handed, and the working
\* copy of every iteration point is derived from that entry alone (the
\* derived count, then the length and offsets of this point), so that the
\* length, the offsets and the resolved addresses of one point never carry
\* over into the next one.
C17_TemplateImmutable ==
    trace # <<>> =>
        LET p == trace[Len(trace)]
            test == SetCount(last.template)
        IN  /\ spi_tests[p.test] = last.template
            /\ last.work = IF last.skipped THEN test
                           ELSE Patch(test, p.len, p.tx_off, p.rx_off)
\* a point with the transmit offset unset runs after a point of the same
\* case that had moved the transmit buffers, and sends from the placeholder
\* of the entry
C17_Witness ==
    /\ trace # <<>>
    /\ LET p == trace[Len(trace)]
       IN  /\ ~last.skipped
           /\ p.tx_off = 0
           /\ last.template.transfers[1].tx_buf # NULL
           /\ last.work.transfers[1].tx_buf = last.template.transfers[1].tx_buf
           /\ \E k \in 1 .. Len(trace) - 1 :
                 /\ trace[k].test = p.test
                 /\ ~trace[k].skipped
                 /\ trace[k].tx_off > 0
                 /\ trace[k].len # p.len

\* C18: the working copy that reaches _spi_test_run and spi_test_fill_tx has
\* a transfer_count strictly below SPI_TEST_MAX_TRANSFERS, also when the
\* count is derived from the leading transfers of non-zero length.
C18_AsStated ==
    (trace # <<>> /\ ~last.skipped) =>
        last.work.transfer_count < SPI_TEST_MAX_TRANSFERS
\* a case that declares no count and has SPI_TEST_MAX_TRANSFERS transfers of
\* non-zero length passes the limit test and is built, filled and executed
\* with a count of SPI_TEST_MAX_TRANSFERS
C18_DerivedFull ==
    /\ trace # <<>>
    /\ ~last.skipped
    /\ last.template.transfer_count = 0
    /\ last.work.transfer_count = SPI_TEST_MAX_TRANSFERS
    /\ trace[Len(trace)].ret = 0
    /\ Len(trace[Len(trace)].ev) > 0

\* the range [a, a + n) lies inside the tx, or the rx, scratch allocation
InTxScratch(a, n) == tx <= a /\ a + n <= tx + SPI_TEST_MAX_SIZE_PLUS
InRxScratch(a, n) == rx <= a /\ a + n <= rx + SPI_TEST_MAX_SIZE_PLUS
\* the message of the latest call, as spi_test_fill_tx is handed it
Resolved ==
    [last.work EXCEPT !.transfers =
        [i \in 1 .. SPI_TEST_MAX_TRANSFERS |->
            IF i <= Len(last.msg) THEN last.msg[i] ELSE NoXfer]]
\* the latest call got as far as spi_test_fill_tx
ReachedFill ==
    /\ trace # <<>>
    /\ ~last.skipped
    /\ \E k \in DOMAIN trace[Len(trace)].ev : trace[Len(trace)].ev[k] = "fill"

\* every resolved range of the latest message lies inside the scratch
\* allocation of its field
Contained ==
    \A n \in DOMAIN last.msg :
        LET x == last.msg[n]
        IN  /\ x.tx_buf # NULL => InTxScratch(x.tx_buf, x.len)
            /\ x.rx_buf # NULL => InRxScratch(x.rx_buf, x.len)

\* C19: whenever a call reaches the fill or execution step, every non-null
\* resolved tx range lies inside the tx scratch allocation, every non-null
\* resolved rx range inside the rx scratch allocation, and every byte the
\* fill writes goes to an address of the tx scratch allocation.
C19_AsStated ==
    ReachedFill =>
        /\ Contained
        /\ LET w == spi_test_fill_tx(Resolved, ZeroMem).written
           IN  \A k \in DOMAIN w : InTxScratch(w[k][1], 1)
\* on the build with 32-bit pointers a transmit placeholder of the TX range
\* whose length wraps is resolved against the rx scratch buffer, to an
\* address outside both allocations, and the call fills it and returns 0
C19_WrappedIntoRx ==
    /\ ReachedFill
    /\ ~ptr_wide
    /\ last.template.transfers[1].tx_buf = TX(1)
    /\ last.msg[1].tx_buf = PtrAdd(rx, TX(1) - RX(0))
    /\ ~InTxScratch(last.msg[1].tx_buf, last.msg[1].len)
    /\ ~InRxScratch(last.msg[1].tx_buf, last.msg[1].len)
    /\ trace[Len(trace)].ret = 0
\* C19 without cases of wrapping length or crossed placeholders
C19_InRange ==
    (ReachedFill /\ last.template \notin StrayCases)
        => C19_AsStated

\* the shipped catalog, in simulate-only mode, with both buffers allocated
ShippedRun ==
    /\ spi_tests = Shipped
    /\ simulate_only # 0
    /\ dma_alignment \in 0 .. 4
    /\ rx # NULL
    /\ tx # NULL
\* the number of iteration points of the shipped catalog: the unset length
\* and the eight lengths of ITERATE_LEN, with D x D offsets in the two
\* full-duplex cases and D offsets in the two one-way cases
ShippedPoints ==
    LET D == IF dma_alignment = 0 THEN 4 ELSE dma_alignment
    IN  2 * (9 * D * D) + 2 * (9 * D)

\* C20: with the shipped catalog in simulate-only mode and a controller
\* dma_alignment of 0..4, every call of spi_test_run_iter returns 0 (no
\* address out of range, no fill error) and every address built lies inside
\* its scratch buffer; spi_test_probe returns only after the calls for all
\* the iteration points of the four cases, and returns 0.
C20_ShippedCompletes ==
    ShippedRun =>
        /\ trace # <<>> =>
              /\ trace[Len(trace)].ret = 0
              /\ ~last.skipped =>
                    /\ ReachedFill
                    /\ Contained
        /\ Left => /\ ret = 0
                   /\ test_i = Len(Shipped) + 1
                   /\ Len(trace) = ShippedPoints
\* spi_test_probe has returned from the shipped catalog on a controller
\* without a dma_alignment, after the point of the second case that starts
\* PAGE_SIZE - 4 + 3 into the buffers with the largest length
C20_Witness ==
    /\ ShippedRun
    /\ Left
    /\ dma_alignment = 0
    /\ stack = NoGarbage
    /\ \E k \in DOMAIN trace :
          /\ trace[k].test = 2
          /\ trace[k].len = SPI_TEST_MAX_SIZE
          /\ trace[k].tx_off = 3
          /\ trace[k].rx_off = 3
          /\ ~trace[k].skipped
          /\ trace[k].ret = 0

---------------------------------------------------------------------------
(* The functions on their own: one call each, from every input of a       *)
(* bounded set.  call is the input, result what the function returned;    *)
(* the harness is at rest.                                                *)

AtRest ==
    /\ devm_tx = FALSE
    /\ simulate_only = 0
    /\ dump_messages = 0
    /\ loopback = 0
    /\ dma_alignment = 0
    /\ spi_tests = <<>>
    /\ wire = "echo"
    /\ stack = NoGarbage
    /\ rx = RxBuffer
    /\ tx = TxBuffer
    /\ freed = <<>>
    /\ test_i = 0
    /\ idx_len = 0
    /\ len = 0
    /\ tx_align = 0
    /\ rx_align = 0
    /\ ret = 0
    /\ trace = <<>>
    /\ max_idx = -1
    /\ last = NoCall
    /\ result = NoCall
    /\ pc = "call"
Rest == <<Build, Params, rx, tx, freed, test_i, idx_len, len, tx_align,
          rx_align, ret, trace, max_idx, last, call>>

(* spi_test_translate on its own *)

\* the offsets tried: all of the region, and one past its end
TranslateOffs == 0 .. SPI_TEST_MAX_SIZE_PLUS + 1
\* the lengths tried: as the offsets, and the lengths that carry a
\* pointer of either region up to and past the end of a narrow address
\* space.  len is given from spi_transfer.len, an unsigned int: in both
\* builds it is below WORD32
TranslateLens ==
    TranslateOffs
    \cup {WORD32 - TX_START - SPI_TEST_MAX_SIZE_PLUS - 1,
          WORD32 - TX_START - 1, WORD32 - TX_START, WORD32 - TX_START + 1,
          WORD32 - RX_START, WORD32 - 1}
\* the placeholders tried: NULL, below the regions, the two regions,
\* between them and behind them
TranslatePtrs ==
    {NULL, 1, RX(0) - 1, RX(SPI_TEST_MAX_SIZE_PLUS) + PAGE_SIZE, TX(0) - 1,
     TX(SPI_TEST_MAX_SIZE_PLUS) + PAGE_SIZE, WORD32 - 1}
    \cup {RX(off) : off \in TranslateOffs}
    \cup {TX(off) : off \in TranslateOffs}

TranslateInit ==
    /\ big_endian = FALSE
    /\ ptr_wide \in BOOLEAN
    /\ AtRest
    /\ mem = ZeroMem
    /\ call \in [ptr : TranslatePtrs, len : TranslateLens]

Translate ==
    /\ pc = "call"
    /\ result' = spi_test_translate(call.ptr, call.len, TxBuffer, RxBuffer)
    /\ pc' = "returned"
    /\ UNCHANGED <<Rest, mem>>

TranslateNext == Translate

SpecTranslate == TranslateInit /\ [][TranslateNext]_vars

\* the placeholder lies in the RX (TX) symbolic region
InRxRegion(p) == RX(0) <= p /\ p <= RX(SPI_TEST_MAX_SIZE_PLUS)
InTxRegion(p) == TX(0) <= p /\ p <= TX(SPI_TEST_MAX_SIZE_PLUS)

\* C3: a NULL placeholder returns 0 and stays NULL; a placeholder at
\* offset off of the TX (RX) region returns 0 and becomes tx + off
\* (rx + off) if off + len <= SPI_TEST_MAX_SIZE_PLUS; if off + len is
\* larger, or the placeholder lies in neither region, the call returns
\* -EINVAL and leaves the placeholder as it is.
C3_AsStated ==
    pc = "returned" =>
        LET p == call.ptr
            fails == [ret |-> -EINVAL, ptr |-> p]
        IN  /\ p = NULL => result = [ret |-> 0, ptr |-> NULL]
            /\ InRxRegion(p) =>
                  IF (p - RX(0)) + call.len <= SPI_TEST_MAX_SIZE_PLUS
                  THEN result = [ret |-> 0, ptr |-> RxBuffer + (p - RX(0))]
                  ELSE result = fails
            /\ InTxRegion(p) =>
                  IF (p - TX(0)) + call.len <= SPI_TEST_MAX_SIZE_PLUS
                  THEN result = [ret |-> 0, ptr |-> TxBuffer + (p - TX(0))]
                  ELSE result = fails
            /\ p # NULL /\ ~InRxRegion(p) /\ ~InTxRegion(p) => result = fails

\* where C3 fails: on a build with narrow pointers, TX(0) with a length
\* that carries *ptr + len around the end of the address space is
\* accepted, though the range does not lie in the region
C3_Wrapped ==
    /\ pc = "returned"
    /\ ~ptr_wide
    /\ call.ptr = TX(0)
    /\ call.len = WORD32 - TX_START
    /\ call.len > SPI_TEST_MAX_SIZE_PLUS
    /\ result.ret = 0
    /\ result.ptr # call.ptr

(* spi_test_check_loopback_result on its own *)

\* the bytes a message may hold in all, and the bytes received
LoopbackBytes == 4
RxValues == {0, 5, 17, 34, 35, 255}
\* what the transmit buffer holds at index i: 0x00, 0x11, 0x22, ...
TxValue(i) == (17 * i) % BYTE

\* the n-th transfer of a message, of one of three kinds
LoopbackXfer(kind, l, n) ==
    Xfer(l,
         IF kind = "rx" THEN NULL ELSE TxBuffer + (n - 1) * LoopbackBytes,
         IF kind = "tx" THEN NULL ELSE RxBuffer + (n - 1) * LoopbackBytes)
LoopbackKinds == {"duplex", "rx", "tx"}
LoopbackMsgs ==
    {<<LoopbackXfer(k, l, 1)>> : k \in LoopbackKinds, l \in 0 .. LoopbackBytes}
    \cup
    {<<LoopbackXfer(k[1], l[1], 1), LoopbackXfer(k[2], l[2], 2)>> :
        k \in LoopbackKinds \X LoopbackKinds,
        l \in {ll \in (0 .. LoopbackBytes) \X (0 .. LoopbackBytes) :
                  ll[1] + ll[2] <= LoopbackBytes}}

\* the addresses the message sends from
TxAddrs(msg) ==
    UNION {IF msg[n].tx_buf = NULL THEN {}
           ELSE {msg[n].tx_buf + i : i \in 0 .. msg[n].len - 1} :
           n \in 1 .. Len(msg)}
\* the memory: the transmit pattern, and the bytes received
LoopbackMem(msg, rxd) ==
    [a \in TxAddrs(msg) \cup DOMAIN rxd |->
        IF a \in DOMAIN rxd THEN rxd[a]
        ELSE TxValue((a - TxBuffer) % LoopbackBytes)]

LoopbackInit ==
    /\ big_endian = FALSE
    /\ ptr_wide \in BOOLEAN
    /\ AtRest
    /\ call \in LoopbackMsgs
    /\ \E rxd \in [RxAddrs(call) -> RxValues] : mem = LoopbackMem(call, rxd)

Loopback ==
    /\ pc = "call"
    /\ result' = spi_test_check_loopback_result(mem, call)
    /\ pc' = "returned"
    /\ UNCHANGED <<Rest, mem>>

LoopbackNext == Loopback

SpecLoopback == LoopbackInit /\ [][LoopbackNext]_vars

\* tx_buf[i] and rx_buf[i] of the n-th transfer of the message called with
TxOf(n, i) == MemRead(mem, call[n].tx_buf, i)
RxOf(n, i) == MemRead(mem, call[n].rx_buf, i)
Duplex(n) == call[n].tx_buf # NULL /\ call[n].rx_buf # NULL
PureRx(n) == call[n].tx_buf = NULL /\ call[n].rx_buf # NULL

\* where the full-duplex transfers of the message differ from index 1 on
DuplexDiffs ==
    {d \in (1 .. Len(call)) \X (1 .. LoopbackBytes) :
        Duplex(d[1]) /\ d[2] < call[d[1]].len
        /\ RxOf(d[1], d[2]) # TxOf(d[1], d[2])}
\* d comes first: in the order of the transfers, then of the indices
FirstOf(d, ds) ==
    \A e \in ds : d[1] < e[1] \/ (d[1] = e[1] /\ d[2] <= e[2])

\* C4: for a message whose receiving transfers all transmit as well, the
\* result is 0 if and only if rx[i] = tx[i] for all 1 <= i < len of every
\* such transfer, whatever byte 0 is; otherwise it is -EINVAL, and what is
\* reported is the first difference, in the order of the transfers and
\* then of the indices.  For any message, a difference in a full-duplex
\* transfer gives -EINVAL, and a message that receives nothing gives 0.
C4_FullDuplex ==
    pc = "returned" =>
        /\ (\A n \in 1 .. Len(call) : ~PureRx(n)) =>
              /\ result.ret = 0 <=> DuplexDiffs = {}
              /\ result.ret # 0 =>
                    /\ result.ret = -EINVAL
                    /\ <<result.xfer, result.i>> \in DuplexDiffs
                    /\ FirstOf(<<result.xfer, result.i>>, DuplexDiffs)
                    /\ result.txb = TxOf(result.xfer, result.i)
                    /\ result.rxb = RxOf(result.xfer, result.i)
        /\ DuplexDiffs # {} => result.ret = -EINVAL
        /\ (\A n \in 1 .. Len(call) : call[n].rx_buf = NULL) =>
              result.ret = 0

\* C4 happens: tx = [0x00, 0x11, 0x22] and rx = [0xFF, 0x11, 0x23] give
\* -EINVAL at index 2, expected 0x22, got 0x23
C4_Witness ==
    /\ pc = "returned"
    /\ Len(call) = 1
    /\ Duplex(1)
    /\ call[1].len = 3
    /\ <<TxOf(1, 0), TxOf(1, 1), TxOf(1, 2)>> = <<0, 17, 34>>
    /\ <<RxOf(1, 0), RxOf(1, 1), RxOf(1, 2)>> = <<255, 17, 35>>
    /\ result = Verdict(-EINVAL, 1, 2, 34, 35)

\* a pure-receive transfer holds an idle line: 0x00s only, or 0xFFs only
IdleLine(n) ==
    /\ call[n].len > 0 => RxOf(n, 0) \in {0, 255}
    /\ \A i \in 1 .. call[n].len - 1 : RxOf(n, i) = RxOf(n, 0)

FillBig == 129
FillLens == {1, 2, FillBig - 2, FillBig}
CountOptions == {FILL_COUNT_8, FILL_COUNT_16, FILL_COUNT_24, FILL_COUNT_32}

\* a transfer that transmits len bytes, or one that only receives
FillParts ==
    {[len |-> l, tx |-> TRUE] : l \in FillLens}
    \cup {[len |-> 2, tx |-> FALSE]}
\* the n-th transfer, after translation
FillXfer(part, n) ==
    Xfer(part.len,
         IF part.tx THEN TxBuffer + (n - 1) ELSE NULL,
         IF part.tx THEN NULL ELSE RxBuffer)
\* the ways of splitting bytes into up to SPI_TEST_MAX_TRANSFERS transfers
Splits == UNION {[1 .. n -> FillParts] : n \in 1 .. SPI_TEST_MAX_TRANSFERS}
\* the same with short transfers only, for the modes that restart with
\* every transfer
ByteOptions == {FILL_TRANSFER_BYTE_8, FILL_TRANSFER_BYTE_16,
                FILL_TRANSFER_BYTE_24, FILL_TRANSFER_BYTE_32}
ShortParts ==
    {[len |-> l, tx |-> TRUE] : l \in 1 .. 3} \cup {[len |-> 2, tx |-> FALSE]}
ShortSplits ==
    UNION {[1 .. n -> ShortParts] : n \in 1 .. SPI_TEST_MAX_TRANSFERS}
FillTest(sp, fo) ==
    Test("fill", <<>>, 0, 0, NoTest, 0, Len(sp),
         [n \in 1 .. Len(sp) |-> FillXfer(sp[n], n)], 0, fo)
FillTests ==
    {FillTest(sp, fo) : sp \in Splits, fo \in CountOptions}
    \cup {FillTest(sp, fo) : sp \in ShortSplits, fo \in ByteOptions}

FillInit ==
    /\ big_endian \in BOOLEAN
    /\ ptr_wide \in BOOLEAN
    /\ AtRest
    /\ mem = ZeroMem
    /\ call \in FillTests

Fill ==
    /\ pc = "call"
    /\ result' = spi_test_fill_tx(call, mem)
    /\ mem' = result'.mem
    /\ pc' = "returned"
    /\ UNCHANGED Rest

FillNext == Fill

SpecFill == FillInit /\ [][FillNext]_vars

\* the bytes of the transfers of the test that transmit, from the n-th on
RECURSIVE TxBytes(_, _)
TxBytes(test, n) ==
    IF n > test.transfer_count THEN 0
    ELSE (IF test.transfers[n].tx_buf # NULL THEN test.transfers[n].len
          ELSE 0) + TxBytes(test, n + 1)

\* the same test with all its bytes in one transfer
Unsplit(test) ==
    Test(test.description, <<>>, 0, 0, NoTest, 0, 1,
         <<Xfer(TxBytes(test, 1), TxBuffer, NULL)>>, test.fill,
         test.fill_option)

\* C10: in the FILL_COUNT_* modes the fill succeeds, count ends at the
\* number of bytes written, and the k-th byte written, over all
\* transfers that transmit, is the byte the same mode writes at
\* position k of one transfer holding all the bytes; for FILL_COUNT_8 it
\* is k mod 256.
C10_CounterContinuity ==
    pc = "returned" /\ call.fill_option \in CountOptions =>
        LET total == TxBytes(call, 1)
            one == spi_test_fill_tx(Unsplit(call), ZeroMem).written
        IN  /\ result.ret = 0
            /\ result.count = total
            /\ Len(result.written) = total
            /\ \A k \in 1 .. total : result.written[k][2] = one[k][2]
            /\ call.fill_option = FILL_COUNT_8 =>
                  \A k \in 1 .. total : result.written[k][2] = (k - 1) % 256

\* C10 happens: two transfers of one byte receive 0 and 1, and the two
\* long transfers behind them count on, through 255 to 0 and 1
C10_Witness ==
    /\ pc = "returned"
    /\ call.fill_option = FILL_COUNT_8
    /\ call.transfer_count = SPI_TEST_MAX_TRANSFERS
    /\ [n \in 1 .. SPI_TEST_MAX_TRANSFERS |-> call.transfers[n].len]
          = <<1, 1, FillBig, FillBig>>
    /\ \A n \in 1 .. SPI_TEST_MAX_TRANSFERS : call.transfers[n].tx_buf # NULL
    /\ result.written[1] = <<TxBuffer, 0>>
    /\ result.written[2] = <<TxBuffer + 1, 1>>
    /\ result.written[3] = <<TxBuffer + 2, 2>>
    /\ result.written[BYTE][2] = BYTE - 1
    /\ result.written[BYTE + 1][2] = 0
    /\ result.written[BYTE + 2][2] = 1

\* the bytes of the transfers that transmit, before the n-th
TxBefore(test, n) == TxBytes(test, 1) - TxBytes(test, n)
\* what the fill wrote to index j of the n-th transfer of the test
WrittenAt(n, j) == result.written[TxBefore(call, n) + j + 1][2]
\* the bytes a mode of the test is wide
Width(test) ==
    CASE test.fill_option \in {FILL_TRANSFER_BYTE_8, FILL_COUNT_8} -> 1
      [] test.fill_option \in {FILL_TRANSFER_BYTE_16, FILL_COUNT_16} -> 2
      [] test.fill_option \in {FILL_TRANSFER_BYTE_24, FILL_COUNT_24} -> 3
      [] OTHER -> 4
\* the slice of v that index i selects out of w bytes, in the byte order
\* of the build
SliceAt(v, i, w) ==
    (IF big_endian THEN v \div 2 ^ (8 * (w - 1 - (i % w)))
                   ELSE v \div 2 ^ (8 * (i % w))) % 256
Transmits(n) == n <= call.transfer_count /\ call.transfers[n].tx_buf # NULL

\* C16: in the FILL_TRANSFER_BYTE_* modes the byte written at index j of a
\* transfer that transmits is the (j mod w)-th slice of j, whatever was
\* written before; so two transfers of the same length hold the same
\* bytes.
C16_AsStated ==
    pc = "returned" /\ call.fill_option \in ByteOptions =>
        /\ result.ret = 0
        /\ \A n \in 1 .. SPI_TEST_MAX_TRANSFERS : Transmits(n) =>
              \A j \in 0 .. call.transfers[n].len - 1 :
                  WrittenAt(n, j) = SliceAt(j, j, Width(call))
        /\ \A n, k \in 1 .. SPI_TEST_MAX_TRANSFERS :
              Transmits(n) /\ Transmits(k)
              /\ call.transfers[n].len = call.transfers[k].len =>
                  \A j \in 0 .. call.transfers[n].len - 1 :
                      WrittenAt(n, j) = WrittenAt(k, j)

\* where C16 fails: FILL_TRANSFER_BYTE_16 on a little-endian build, three
\* transfers of 2, 1 and 2 bytes: the first holds 0, 0 and the third 0, 1
C16_CountSlice ==
    /\ pc = "returned"
    /\ call.fill_option = FILL_TRANSFER_BYTE_16
    /\ ~big_endian
    /\ call.transfer_count = 3
    /\ \A n \in 1 .. 3 : Transmits(n)
    /\ [n \in 1 .. 3 |-> call.transfers[n].len] = <<2, 1, 2>>
    /\ <<WrittenAt(1, 0), WrittenAt(1, 1)>> = <<0, 0>>
    /\ <<WrittenAt(3, 0), WrittenAt(3, 1)>> = <<0, 1>>

===========================================================================
